---- MODULE Spec2Model ----
(***************************************************************************)
(* Model of the GNSS correction / statistics core (gnss_parser.py).        *)
(*                                                                         *)
(* Number representation.  Python floats are modelled by exact rationals   *)
(* <<n, d>> (d > 0, lowest terms) wherever the code adds, multiplies and   *)
(* divides, and by integers after a square root (floor, see ISqrt).        *)
(*   latitude, longitude : integer hundredths of a degree                  *)
(*   altitude            : integer metres                                  *)
(*   hdop, pdop, vdop    : integer tenths                                  *)
(*   quality weights     : integer tenths                                  *)
(*   distances           : integer metres                                  *)
(*   percentages         : integer tenths of a percent                     *)
(* A Python dict is a TLA+ function whose DOMAIN is the set of its keys.   *)
(***************************************************************************)
EXTENDS Integers, Sequences, FiniteSets, TLC

VARIABLES
  data,               \* the parsed record list the calls are made on
  called,             \* the operations whose result is current
  method,             \* arguments of the last calculate_position_corrections call
  weight_by_quality,
  correction,         \* its result dict, or [exception |-> name] where it raised
  corrected_data,     \* result of the last apply_corrections_to_data call
  stats,              \* result of the last get_summary_statistics call
  app_pc,             \* app.py: where the module's start-up code stands
  sample_data,        \* app.py: the module-level sample_data
  sample_stats,       \* app.py: the module-level sample_stats
  requests            \* app.py: the requests being served, one per worker thread

coreVars == <<data, called, method, weight_by_quality, correction, corrected_data, stats>>

appVars == <<app_pc, sample_data, sample_stats, requests>>

vars == <<coreVars, appVars>>

\* Longest record list explored.
MaxLen == 3

\* Longest sample file loaded at start-up.
MaxSample == 2

(***************************************************************************)
(* Arithmetic helpers                                                      *)
(***************************************************************************)
Abs(x) == IF x < 0 THEN -x ELSE x

RECURSIVE GCD(_, _)
GCD(a, b) == IF b = 0 THEN a ELSE GCD(b, a % b)

LCM(a, b) == (a \div GCD(a, b)) * b

\* The rational n/d in lowest terms with a positive denominator.
Rat(n, d) ==
  LET s == IF d < 0 THEN -1 ELSE 1
      g == GCD(Abs(n), Abs(d))
  IN  <<(s * n) \div g, (s * d) \div g>>

RInt(i) == <<i, 1>>

RAdd(p, q) ==
  LET l == LCM(p[2], q[2])
  IN  Rat(p[1] * (l \div p[2]) + q[1] * (l \div q[2]), l)

RNeg(p) == <<-p[1], p[2]>>

RSub(p, q) == RAdd(p, RNeg(q))

RMul(p, q) ==
  LET g1 == GCD(Abs(p[1]), q[2])
      g2 == GCD(Abs(q[1]), p[2])
  IN  Rat((p[1] \div g1) * (q[1] \div g2), (p[2] \div g2) * (q[2] \div g1))

\* p / q for q # 0 (the callers test for a zero divisor first).
RDiv(p, q) == RMul(p, Rat(q[2], q[1]))

RLe(p, q) ==
  LET l == LCM(p[2], q[2])
  IN  p[1] * (l \div p[2]) <= q[1] * (l \div q[2])

\* Integer part of a rational, rounded toward zero.
RTrunc(p) == IF p[1] < 0 THEN -((-p[1]) \div p[2]) ELSE p[1] \div p[2]

RECURSIVE SqrtSearch(_, _, _)
SqrtSearch(n, lo, hi) ==
  IF lo >= hi THEN lo
  ELSE LET mid == (lo + hi + 1) \div 2
       IN  IF mid * mid <= n THEN SqrtSearch(n, mid, hi)
                             ELSE SqrtSearch(n, lo, mid - 1)

\* math.sqrt on a non-negative integer, rounded down to an integer.
ISqrt(n) == SqrtSearch(n, 0, IF n < 46340 THEN n ELSE 46340)

(***************************************************************************)
(* Sequence helpers (Python list comprehensions, sum, min, max, sorted)    *)
(***************************************************************************)
RECURSIVE SumSeq(_)
SumSeq(s) == IF s = <<>> THEN 0 ELSE Head(s) + SumSeq(Tail(s))

RECURSIVE RSumSeq(_)
RSumSeq(s) == IF s = <<>> THEN RInt(0) ELSE RAdd(Head(s), RSumSeq(Tail(s)))

RECURSIVE MinSeq(_)
MinSeq(s) ==
  IF Len(s) = 1 THEN s[1]
  ELSE LET m == MinSeq(Tail(s)) IN IF Head(s) <= m THEN Head(s) ELSE m

RECURSIVE MaxSeq(_)
MaxSeq(s) ==
  IF Len(s) = 1 THEN s[1]
  ELSE LET m == MaxSeq(Tail(s)) IN IF Head(s) >= m THEN Head(s) ELSE m

RECURSIVE Insert(_, _)
Insert(x, s) ==
  IF s = <<>> THEN <<x>>
  ELSE IF x <= Head(s) THEN <<x>> \o s
       ELSE <<Head(s)>> \o Insert(x, Tail(s))

RECURSIVE Sorted(_)
Sorted(s) == IF s = <<>> THEN <<>> ELSE Insert(Head(s), Sorted(Tail(s)))

\* any(xs) on a list of numbers: some element is non-zero.
AnyNonZero(s) == \E i \in 1..Len(s) : s[i] # 0

\* d.get(key) used as a condition: the key is present and its value is non-zero.
Truthy(d, key) == key \in DOMAIN d /\ d[key] # 0

\* d.get(key, default)
Get(d, key, default) == IF key \in DOMAIN d THEN d[key] ELSE default

\* statistics.mean
Mean(s) == Rat(SumSeq(s), Len(s))

\* statistics.median: the middle value, or the average of the two middle values.
Median(s) ==
  LET t == Sorted(s)
      n == Len(s)
  IN  IF n % 2 = 1 THEN RInt(t[(n + 1) \div 2])
      ELSE Rat(t[n \div 2] + t[n \div 2 + 1], 2)

\* statistics.stdev (sample standard deviation) of a list of >= 2 integers,
\* in hundredths of the list's unit, rounded down.
StDev(s) ==
  LET m   == Mean(s)
      sq  == [i \in 1..Len(s) |-> RMul(RSub(RInt(s[i]), m), RSub(RInt(s[i]), m))]
      var == RDiv(RSumSeq(sq), RInt(Len(s) - 1))
  IN  ISqrt(RTrunc(RMul(var, RInt(10000))))

(***************************************************************************)
(* Fix records, as parse_nmea_sentence builds them                         *)
(***************************************************************************)
GGA(lat, lon, alt, fix, sats, hdop) ==
  [timestamp |-> "12:35:19", latitude |-> lat, longitude |-> lon, altitude |-> alt,
   fix_quality |-> fix, num_satellites |-> sats, hdop |-> hdop, sentence_type |-> "GGA"]

RMC(lat, lon) ==
  [timestamp |-> "12:35:19", latitude |-> lat, longitude |-> lon, speed |-> 0,
   course |-> 0, status |-> "Active", sentence_type |-> "RMC"]

GSA(pdop, hdop, vdop) ==
  [mode |-> "A", fix_type |-> "3D Fix", pdop |-> pdop, hdop |-> hdop, vdop |-> vdop,
   satellite_ids |-> <<"10", "07">>, sentence_type |-> "GSA"]

GSV(in_view) ==
  [num_messages |-> 1, msg_num |-> 1, num_sv_in_view |-> in_view,
   satellites |-> <<>>, sentence_type |-> "GSV"]

\* A GGA record that lacks the optional keys the calculator reads with a default.
BareGGA(lat, lon, fix) ==
  [latitude |-> lat, longitude |-> lon, fix_quality |-> fix, sentence_type |-> "GGA"]

\* The records the input lists are drawn from.  Latitude 60.00 / 60.10 degrees,
\* longitude -122.00 / -121.90 degrees; a zero coordinate, satellite count or hdop
\* is what the decoder emits for an empty field.
Records ==
  { GGA(6000, -12200, 0,  "GPS Fix",   6,  10),
    GGA(6010, -12190, 50, "RTK Fixed", 12, 0),
    GGA(6010, -12190, 50, "RTK Fixed", 12, 20),
    GGA(6010, -12200, 20, "No Fix",    0,  20),
    GGA(6000, 0,      0,  "No Fix",    0,  0),
    BareGGA(6000, -12190, "DGPS Fix"),
    RMC(6000, -12200),
    GSA(17, 9, 15),
    GSV(11) }

Methods == {"mean", "median", "weighted_average", "kalman"}

RECURSIVE SeqsUpTo(_, _)
SeqsUpTo(S, n) ==
  IF n = 0 THEN {<<>>}
  ELSE LET shorter == SeqsUpTo(S, n - 1)
       IN  shorter \cup {Append(s, x) : s \in {t \in shorter : Len(t) = n - 1}, x \in S}

(***************************************************************************)
(* calculate_position_corrections                                          *)
(***************************************************************************)
MetersPerDegree == 111000
SatNorm == 12
DefaultSats == 4
\* 2.0 and 0.5, in tenths
DefaultHdop == 20
HdopFloor == 5

\* Stand-ins for the float operations of the distance loop.  TLC integers are
\* 32 bits wide: products are formed digit group by digit group, and a natural
\* number that does not fit is a sequence of base-1000 digits, least
\* significant first (a "long" number; <<>> is 0).

\* floor(a * b / 10^9) for 0 <= a, b < 2^31
MulGiga(a, b) ==
  LET a2 == a \div 1000000
      a1 == (a \div 1000) % 1000
      a0 == a % 1000
      b2 == b \div 1000000
      b1 == (b \div 1000) % 1000
      b0 == b % 1000
      t0 == a0 * b0
      t1 == a1 * b0 + a0 * b1
      t2 == a2 * b0 + a1 * b1 + a0 * b2
      t3 == a2 * b1 + a1 * b2
      t4 == a2 * b2
  IN  t4 * 1000 + t3 + (t2 + (t1 + t0 \div 1000) \div 1000) \div 1000

\* a without its leading zero digits
RECURSIVE Strip(_)
Strip(a) ==
  IF a # <<>> /\ a[Len(a)] = 0 THEN Strip(SubSeq(a, 1, Len(a) - 1)) ELSE a

\* The long number whose digits, before carrying, are s, plus the carry c.
RECURSIVE Carry(_, _)
Carry(s, c) ==
  IF s = <<>> THEN (IF c = 0 THEN <<>> ELSE <<c % 1000>> \o Carry(<<>>, c \div 1000))
  ELSE <<(Head(s) + c) % 1000>> \o Carry(Tail(s), (Head(s) + c) \div 1000)

Long(n) == Strip(Carry(<<n>>, 0))

RECURSIVE AddRaw(_, _)
AddRaw(a, b) ==
  IF a = <<>> THEN b
  ELSE IF b = <<>> THEN a
  ELSE <<Head(a) + Head(b)>> \o AddRaw(Tail(a), Tail(b))

RECURSIVE ScaleRaw(_, _)
ScaleRaw(a, k) == IF a = <<>> THEN <<>> ELSE <<Head(a) * k>> \o ScaleRaw(Tail(a), k)

RECURSIVE MulRaw(_, _)
MulRaw(a, b) ==
  IF b = <<>> THEN <<>>
  ELSE AddRaw(ScaleRaw(a, Head(b)), <<0>> \o MulRaw(a, Tail(b)))

LongAdd(a, b) == Strip(Carry(AddRaw(a, b), 0))

LongMul(a, b) == Strip(Carry(MulRaw(a, b), 0))

\* a * k for an integer 0 <= k < 2000000
LongScale(a, k) == Strip(Carry(ScaleRaw(a, k), 0))

\* <<floor(a / k), a % k>> for an integer 0 < k < 2000000
RECURSIVE DivRem(_, _)
DivRem(a, k) ==
  IF a = <<>> THEN <<<<>>, 0>>
  ELSE LET high == DivRem(Tail(a), k)
           v    == high[2] * 1000 + Head(a)
       IN  <<(<<v \div k>> \o high[1]), v % k>>

LongDiv(a, k) == Strip(DivRem(a, k)[1])

\* a - b for a >= b, b taken with the borrow
RECURSIVE SubRaw(_, _, _)
SubRaw(a, b, borrow) ==
  IF a = <<>> THEN <<>>
  ELSE LET v == Head(a) - (IF b = <<>> THEN 0 ELSE Head(b)) - borrow
       IN  <<(IF v < 0 THEN v + 1000 ELSE v)>>
             \o SubRaw(Tail(a), IF b = <<>> THEN b ELSE Tail(b), IF v < 0 THEN 1 ELSE 0)

LongSub(a, b) == Strip(SubRaw(a, b, 0))

RECURSIVE LeFrom(_, _, _)
LeFrom(a, b, i) ==
  IF i = 0 THEN TRUE
  ELSE IF a[i] # b[i] THEN a[i] < b[i]
  ELSE LeFrom(a, b, i - 1)

\* a <= b
LongLe(a, b) ==
  IF Len(Strip(a)) # Len(Strip(b)) THEN Len(Strip(a)) < Len(Strip(b))
  ELSE LeFrom(a, b, Len(Strip(a)))

\* a * 1000^k and floor(a / 1000^k)
Shift(a, k) == IF a = <<>> THEN a ELSE [i \in 1..k |-> 0] \o a

Drop(a, k) == SubSeq(a, k + 1, Len(a))

\* The integer a long number below 2^31 stands for.
RECURSIVE ToInt(_)
ToInt(a) == IF a = <<>> THEN 0 ELSE Head(a) + 1000 * ToInt(Tail(a))

\* math.pi in units of 10^-24
Pi24 == <<643, 462, 238, 793, 589, 653, 592, 141, 3>>

\* math.radians(lat) in units of 10^-24, lat >= 0 in hundredths of a degree
Radians24(lat) == LongDiv(LongScale(Pi24, lat), 18000)

\* The series 1 - x^2/2! + x^4/4! - ... from the term t = x^(2k)/(2k)! on, in
\* units of 10^-24 (x2 is x^2): <<the sum of its positive terms, the sum of its
\* negative terms>> added to <<pos, neg>>.
RECURSIVE CosSeries(_, _, _, _, _)
CosSeries(x2, t, k, pos, neg) ==
  IF t = <<>> THEN <<pos, neg>>
  ELSE CosSeries(x2, LongDiv(Drop(LongMul(t, x2), 8), (2 * k + 1) * (2 * k + 2)), k + 1,
                 IF k % 2 = 0 THEN LongAdd(pos, t) ELSE pos,
                 IF k % 2 = 1 THEN LongAdd(neg, t) ELSE neg)

\* math.cos(math.radians(lat)), lat in hundredths of a degree between -90 and
\* 90 degrees, rounded to the nearest 10^-18: a long number in that unit.
CosAtto(lat) ==
  LET x   == Radians24(Abs(lat))
      sum == CosSeries(Drop(LongMul(x, x), 8), Shift(<<1>>, 8), 0, <<>>, <<>>)
  IN  IF LongLe(sum[2], sum[1])
      THEN Drop(LongAdd(LongSub(sum[1], sum[2]), <<0, 500>>), 2)
      ELSE <<>>

\* CosAtto on the latitudes that occur in Records, evaluated once.
CosKnown ==
  [lat \in {d.latitude : d \in {r \in Records : "latitude" \in DOMAIN r}} |-> CosAtto(lat)]

\* CosAtto(lat), looked up where it is already known.
Cos(lat) == IF lat \in DOMAIN CosKnown THEN CosKnown[lat] ELSE CosAtto(lat)

\* floor(Cos(lat) / 10^9): the cosine in units of 10^-9
CosGiga(lat) == ToInt(Drop(Cos(lat), 3))

\* |r * 111000| in millimetres, rounded down, for r a rational number of
\* hundredths of a degree.
MilliMetres(r) ==
  LET n == Abs(r[1]) * (MetersPerDegree \div 100)
  IN  (n \div r[2]) * 1000 + ((n % r[2]) * 1000) \div r[2]

\* floor((x^2 + y^2) / 10^6): the squared length in square metres of a vector
\* given in millimetres.
SquareMetres(x, y) ==
  LET xh == x \div 1000
      xl == x % 1000
      yh == y \div 1000
      yl == y % 1000
  IN  xh * xh + yh * yh
        + (2 * (xh * xl + yh * yl) + (xl * xl + yl * yl) \div 1000) \div 1000

\* Mutant of Qualifies: the longitude test is left out.
Qualifies_LatitudeOnly(d) ==
  /\ Get(d, "sentence_type", "") = "GGA"
  /\ Truthy(d, "latitude")

\* The filter shared by the calculator and the applicator:
\* a GGA record with a non-zero latitude and a non-zero longitude.
Qualifies(d) ==
  /\ Get(d, "sentence_type", "") = "GGA"
  /\ Truthy(d, "latitude")
  /\ Truthy(d, "longitude")

quality_weights ==
  [f \in {"RTK Fixed", "RTK Float", "DGPS Fix", "GPS Fix", "No Fix"} |->
     CASE f = "RTK Fixed" -> Rat(100, 10)
       [] f = "RTK Float" -> Rat(50, 10)
       [] f = "DGPS Fix"  -> Rat(20, 10)
       [] f = "GPS Fix"   -> Rat(10, 10)
       [] f = "No Fix"    -> Rat(1, 10)]

\* max(hdop, 0.5), in tenths
MaxHdop(hdop) == IF hdop >= HdopFloor THEN hdop ELSE HdopFloor

\* Mutant of total_weight: the weight_by_quality flag is not consulted.
total_weight_IgnoresFlag(d, flag) ==
  LET fix            == Get(d, "fix_quality", "Unknown")
      quality_weight == IF fix \in DOMAIN quality_weights
                        THEN quality_weights[fix] ELSE RInt(1)
      sat_weight     == Rat(Get(d, "num_satellites", DefaultSats), SatNorm)
      hdop_weight    == Rat(10, MaxHdop(Get(d, "hdop", DefaultHdop)))
  IN  RMul(RMul(quality_weight, sat_weight), hdop_weight)

\* The weight of one qualifying record (the body of the loop over gga_data).
total_weight(d, flag) ==
  LET fix            == Get(d, "fix_quality", "Unknown")
      quality_weight == IF fix \in DOMAIN quality_weights
                        THEN quality_weights[fix] ELSE RInt(1)
      sat_weight     == Rat(Get(d, "num_satellites", DefaultSats), SatNorm)
      hdop           == Get(d, "hdop", DefaultHdop)
      hdop_weight    == Rat(10, MaxHdop(hdop))
  IN  IF flag THEN RMul(RMul(quality_weight, sat_weight), hdop_weight) ELSE RInt(1)

\* sum(x * w for x, w in zip(xs, weights)) / sum(weights), for sum(weights) # 0
WeightedAverage(xs, weights) ==
  RDiv(RSumSeq([i \in 1..Len(xs) |-> RMul(RInt(xs[i]), weights[i])]), RSumSeq(weights))

\* n <= math.sqrt(dlat**2 + dlon**2) for the legs dlat = 1110 * p1 / q1 and
\* dlon = 1110 * (p2 / q2) * cos metres, cos in units of 10^-18; with the
\* fractions cleared: n^2 q1^2 q2^2 10^36 <= (1110 p1)^2 q2^2 10^36 + (1110 p2)^2 q1^2 cos^2.
Reaches(n, dlat, dlon, cos) ==
  LET a   == Long(Abs(dlat[1]) * (MetersPerDegree \div 100))
      b   == Long(Abs(dlon[1]) * (MetersPerDegree \div 100))
      q1s == LongMul(Long(dlat[2]), Long(dlat[2]))
      q2s == LongMul(Long(dlon[2]), Long(dlon[2]))
  IN  LongLe(Shift(LongMul(LongMul(Long(n), Long(n)), LongMul(q1s, q2s)), 12),
             LongAdd(Shift(LongMul(LongMul(a, a), q2s), 12),
                     LongMul(LongMul(LongMul(b, b), q1s), LongMul(cos, cos))))

\* Mutant of Distance: the two legs are added instead of squared and rooted.
Distance_SumOfLegs(corrected_lat, corrected_lon, lat, lon) ==
  LET south == RSub(corrected_lat, RInt(lat))[1] < 0
      west  == RSub(corrected_lon, RInt(lon))[1] < 0
      dlat  == MilliMetres(RSub(corrected_lat, RInt(lat)))
      dlon  == MulGiga(MilliMetres(RSub(corrected_lon, RInt(lon))), CosGiga(lat))
  IN  ((IF south THEN -dlat ELSE dlat) + (IF west THEN -dlon ELSE dlon)) \div 1000

\* Planar distance between the corrected position and one fix,
\* math.sqrt(dlat**2 + dlon**2), in whole metres (rounded down).  Legs rounded
\* to the millimetre below and above bracket the distance; where the two
\* bounds fall in different metres, the unrounded legs decide (Reaches).
Distance(corrected_lat, corrected_lon, lat, lon) ==
  LET dlat == RSub(corrected_lat, RInt(lat))
      dlon == RSub(corrected_lon, RInt(lon))
      cos  == Cos(lat)
      c9   == ToInt(Drop(cos, 3))
      low  == ISqrt(SquareMetres(MilliMetres(dlat),
                                 MulGiga(MilliMetres(dlon), IF c9 > 0 THEN c9 - 1 ELSE 0)))
      high == ISqrt(SquareMetres(MilliMetres(dlat) + 1,
                                 MulGiga(MilliMetres(dlon) + 1, c9 + 1) + 1))
  IN  IF low = high THEN low
      ELSE IF Reaches(high, dlat, dlon, cos) THEN high ELSE low

\* math.sqrt(lat_range**2 + lon_range**2) * 111000 in whole metres (rounded
\* down), the ranges in hundredths of a degree: the factor is taken under the
\* root, so that the root is the only rounding.
Spread(lat_range, lon_range) ==
  ISqrt((MetersPerDegree \div 100) * (MetersPerDegree \div 100)
          * (lat_range * lat_range + lon_range * lon_range))

\* The three estimators; the weighted one is reached only with a non-zero weight sum.
Corrected(m, flag, gga_data, xs) ==
  CASE m = "mean"   -> Mean(xs)
    [] m = "median" -> Median(xs)
    [] OTHER        ->
         WeightedAverage(xs, [i \in 1..Len(gga_data) |-> total_weight(gga_data[i], flag)])

\* The two failure results.
InsufficientData(num_points) ==
  [error |-> "Insufficient data for corrections (need at least 2 position fixes)",
   num_points |-> num_points]

\* Mutant of UnknownMethod: the method is not interpolated into the message.
UnknownMethod_NoName(m) == [error |-> "Unknown correction method: {method}"]

UnknownMethod(m) == [error |-> "Unknown correction method: " \o m]

\* The result dict, or [exception |-> name] where the call raises.
calculate_position_corrections(records, m, flag) ==
  LET gga_data == SelectSeq(records, Qualifies)
      n        == Len(gga_data)
      lats     == [i \in 1..n |-> gga_data[i].latitude]
      lons     == [i \in 1..n |-> gga_data[i].longitude]
      alts     == [i \in 1..n |-> Get(gga_data[i], "altitude", 0)]
      weights  == [i \in 1..n |-> total_weight(gga_data[i], flag)]
  IN
  IF n < 2 THEN InsufficientData(n)
  ELSE IF m \notin {"mean", "median", "weighted_average"} THEN UnknownMethod(m)
  ELSE IF m = "weighted_average" /\ RSumSeq(weights) = RInt(0) THEN
    [exception |-> "ZeroDivisionError"]
  ELSE
    LET corrected_lat == Corrected(m, flag, gga_data, lats)
        corrected_lon == Corrected(m, flag, gga_data, lons)
        corrected_alt == IF AnyNonZero(alts) THEN Corrected(m, flag, gga_data, alts)
                         ELSE RInt(0)
        lat_corrections == [i \in 1..n |-> RSub(corrected_lat, RInt(lats[i]))]
        lon_corrections == [i \in 1..n |-> RSub(corrected_lon, RInt(lons[i]))]
        alt_corrections == [i \in 1..n |-> RSub(corrected_alt, RInt(alts[i]))]
        correction_distances ==
          [i \in 1..n |-> Distance(corrected_lat, corrected_lon, lats[i], lons[i])]
    IN
    [corrected_position |->
       [latitude |-> corrected_lat, longitude |-> corrected_lon, altitude |-> corrected_alt],
     original_center |->
       [latitude |-> Mean(lats), longitude |-> Mean(lons),
        altitude |-> IF AnyNonZero(alts) THEN Mean(alts) ELSE RInt(0)],
     corrections |->
       [mean_lat_correction |-> RDiv(RSumSeq(lat_corrections), RInt(n)),
        mean_lon_correction |-> RDiv(RSumSeq(lon_corrections), RInt(n)),
        mean_alt_correction |-> IF AnyNonZero(alts)
                                THEN RDiv(RSumSeq(alt_corrections), RInt(n)) ELSE RInt(0),
        mean_distance_correction_m |-> Mean(correction_distances),
        max_distance_correction_m |-> MaxSeq(correction_distances),
        min_distance_correction_m |-> MinSeq(correction_distances)],
     accuracy_improvement |->
       [lat_std_before |-> StDev(lats),
        lon_std_before |-> StDev(lons),
        spread_before_m |-> Spread(MaxSeq(lats) - MinSeq(lats), MaxSeq(lons) - MinSeq(lons)),
        num_points |-> n],
     method |-> m,
     weight_by_quality |-> flag]

(***************************************************************************)
(* apply_corrections_to_data                                               *)
(***************************************************************************)
\* Mutant of Augment: longitude_original is filled from the latitude.
Augment_CopyPaste(d, corrected_pos) ==
  [k \in DOMAIN d \cup {"latitude_original", "longitude_original", "altitude_original",
                       "latitude_corrected", "longitude_corrected", "altitude_corrected"} |->
     CASE k = "latitude_original"   -> d.latitude
       [] k = "longitude_original"  -> d.latitude
       [] k = "altitude_original"   -> Get(d, "altitude", 0)
       [] k = "latitude_corrected"  -> corrected_pos.latitude
       [] k = "longitude_corrected" -> corrected_pos.longitude
       [] k = "altitude_corrected"  -> corrected_pos.altitude
       [] OTHER                     -> d[k]]

\* Mutant of Augment: the record's own latitude and longitude are overwritten
\* with the whole part of the corrected position.
Augment_OverwritesPosition(d, corrected_pos) ==
  [k \in DOMAIN d \cup {"latitude_original", "longitude_original", "altitude_original",
                       "latitude_corrected", "longitude_corrected", "altitude_corrected"} |->
     CASE k = "latitude_original"   -> d.latitude
       [] k = "longitude_original"  -> d.longitude
       [] k = "altitude_original"   -> Get(d, "altitude", 0)
       [] k = "latitude_corrected"  -> corrected_pos.latitude
       [] k = "longitude_corrected" -> corrected_pos.longitude
       [] k = "altitude_corrected"  -> corrected_pos.altitude
       [] k = "latitude"            -> RTrunc(corrected_pos.latitude)
       [] k = "longitude"           -> RTrunc(corrected_pos.longitude)
       [] OTHER                     -> d[k]]

\* new_d = d.copy() followed by the six assignments
Augment(d, corrected_pos) ==
  [k \in DOMAIN d \cup {"latitude_original", "longitude_original", "altitude_original",
                       "latitude_corrected", "longitude_corrected", "altitude_corrected"} |->
     CASE k = "latitude_original"   -> d.latitude
       [] k = "longitude_original"  -> d.longitude
       [] k = "altitude_original"   -> Get(d, "altitude", 0)
       [] k = "latitude_corrected"  -> corrected_pos.latitude
       [] k = "longitude_corrected" -> corrected_pos.longitude
       [] k = "altitude_corrected"  -> corrected_pos.altitude
       [] OTHER                     -> d[k]]

\* Mutant of apply_corrections_to_data: the applicator tests the latitude only,
\* a rule other than the calculator's.
apply_OwnFilter(records, correction_info) ==
  IF "error" \in DOMAIN correction_info THEN records
  ELSE [i \in 1..Len(records) |->
          IF Qualifies_LatitudeOnly(records[i])
          THEN Augment(records[i], correction_info.corrected_position)
          ELSE records[i]]

\* Mutant of apply_corrections_to_data: on an error result the (still empty)
\* output list is returned instead of the input.
apply_ReturnsEmptyOnError(records, correction_info) ==
  IF "error" \in DOMAIN correction_info THEN <<>>
  ELSE [i \in 1..Len(records) |->
          IF Qualifies(records[i])
          THEN Augment(records[i], correction_info.corrected_position)
          ELSE records[i]]

apply_corrections_to_data(records, correction_info) ==
  IF "error" \in DOMAIN correction_info THEN records
  ELSE [i \in 1..Len(records) |->
          IF Qualifies(records[i])
          THEN Augment(records[i], correction_info.corrected_position)
          ELSE records[i]]

(***************************************************************************)
(* get_summary_statistics                                                  *)
(***************************************************************************)
\* The dict with no keys.
EmptyDict == [k \in {} |-> 0]

\* [d[key] for d in rows if d.get(key)]
TruthyValues(rows, key) ==
  LET kept == SelectSeq(rows, LAMBDA d : Truthy(d, key))
  IN  [i \in 1..Len(kept) |-> kept[i][key]]

\* [d[key] for d in rows if d.get(key) and d[key] > 0]
PositiveValues(rows, key) ==
  LET kept == SelectSeq(rows, LAMBDA d : Truthy(d, key) /\ d[key] > 0)
  IN  [i \in 1..Len(kept) |-> kept[i][key]]

OfType(records, type) ==
  SelectSeq(records, LAMBDA d : Get(d, "sentence_type", "") = type)

\* Mutant of Percent: the percentage is cut to one decimal instead of rounded.
Percent_Truncates(count, total) == (count * 1000) \div total

\* The least j >= i with count * 2^j >= total: count / total lies in
\* [2^-j, 2^(1-j)).
RECURSIVE BinaryExponent(_, _, _)
BinaryExponent(count, total, i) ==
  IF count * 2^i >= total THEN i ELSE BinaryExponent(count, total, i + 1)

\* (x * 2^e) % m for m < 2^23, eight bits at a time
RECURSIVE ShiftMod(_, _, _)
ShiftMod(x, e, m) ==
  IF e = 0 THEN x % m
  ELSE IF e >= 8 THEN ShiftMod((256 * (x % m)) % m, e - 8, m)
  ELSE (2^e * (x % m)) % m

\* The sign of the float (count / total) * 100 minus the exact 100 * count / total,
\* for 0 < count < total: both float operations round to a 53-bit significand,
\* ties to even.  With c / t the fraction in lowest terms and m the significand
\* of the quotient, m * t = c * 2^e + d; the product 100 * m loses its low
\* `shift' bits, which changes it by d2; the float differs from the exact
\* value by (100 * d + d2 * t) / (t * 2^e).
FloatError(count, total) ==
  LET c     == count \div GCD(count, total)
      t     == total \div GCD(count, total)
      j     == BinaryExponent(c, t, 0)
      rest  == ShiftMod(c, 52 + j, 256 * t)
      r     == rest % t
      d     == IF 2 * r < t THEN -r ELSE t - r
      mlow  == IF 2 * r < t THEN rest \div t ELSE (rest \div t + 1) % 256
      shift == IF 25 * c * 2^j < 32 * t \/ (25 * c * 2^j = 32 * t /\ d < 0) THEN 6 ELSE 7
      plow  == (100 * mlow) % 2^(shift + 1)
      low   == plow % 2^shift
      half  == 2^(shift - 1)
      d2    == IF low < half THEN -low
               ELSE IF low > half THEN 2^shift - low
               ELSE IF (plow \div 2^shift) % 2 = 0 THEN -half ELSE half
  IN  100 * d + d2 * t

\* round((count / total) * 100, 1) in tenths of a percent.  The float is within
\* 10^-13 of the exact quotient, so the nearest tenth is that of the exact
\* quotient unless the exact quotient lies halfway between two tenths; there
\* the side the float falls on decides, and a float that is exactly halfway
\* goes to the even tenth.
Percent(count, total) ==
  LET q == (count * 1000) \div total
      r == (count * 1000) % total
  IN  IF 2 * r < total THEN q
      ELSE IF 2 * r > total THEN q + 1
      ELSE IF FloatError(count, total) < 0 THEN q
      ELSE IF FloatError(count, total) > 0 THEN q + 1
      ELSE IF q % 2 = 0 THEN q ELSE q + 1

GoodFixes == {"RTK Fixed", "RTK Float", "DGPS Fix"}

get_summary_statistics(records) ==
  IF records = <<>> THEN EmptyDict
  ELSE
    LET gga_data == OfType(records, "GGA")
        gsa_data == OfType(records, "GSA")
        rmc_data == OfType(records, "RMC")
        lats  == TruthyValues(gga_data, "latitude")
        lons  == TruthyValues(gga_data, "longitude")
        alts  == TruthyValues(gga_data, "altitude")
        sats  == TruthyValues(gga_data, "num_satellites")
        hdops == PositiveValues(gsa_data, "hdop")
        pdops == PositiveValues(gsa_data, "pdop")
        vdops == PositiveValues(gsa_data, "vdop")
        fixes == [i \in 1..Len(gga_data) |-> Get(gga_data[i], "fix_quality", "Unknown")]
        fix_types ==
          [f \in {fixes[i] : i \in 1..Len(fixes)} |->
             Cardinality({i \in 1..Len(fixes) : fixes[i] = f})]
        good_fixes ==
          Cardinality({i \in 1..Len(gga_data) :
                         "fix_quality" \in DOMAIN gga_data[i]
                         /\ gga_data[i].fix_quality \in GoodFixes})
        counts ==
          [total_sentences |-> Len(records), gga_count |-> Len(gga_data),
           gsa_count |-> Len(gsa_data), rmc_count |-> Len(rmc_data)]
        position ==
          IF gga_data # <<>> /\ lats # <<>> /\ lons # <<>> THEN
            [avg_latitude |-> Mean(lats), avg_longitude |-> Mean(lons),
             min_latitude |-> MinSeq(lats), max_latitude |-> MaxSeq(lats),
             min_longitude |-> MinSeq(lons), max_longitude |-> MaxSeq(lons),
             position_spread_meters |->
               Spread(MaxSeq(lats) - MinSeq(lats), MaxSeq(lons) - MinSeq(lons))]
          ELSE EmptyDict
        altitude ==
          IF gga_data # <<>> /\ alts # <<>> THEN
            [avg_altitude |-> Mean(alts), min_altitude |-> MinSeq(alts),
             max_altitude |-> MaxSeq(alts), altitude_range |-> MaxSeq(alts) - MinSeq(alts)]
          ELSE EmptyDict
        satellites ==
          IF gga_data # <<>> /\ sats # <<>> THEN
            [avg_satellites |-> Mean(sats), min_satellites |-> MinSeq(sats),
             max_satellites |-> MaxSeq(sats)]
          ELSE EmptyDict
        fix ==
          IF gga_data # <<>> THEN
            [fix_types |-> fix_types,
             fix_percentages |->
               [f \in DOMAIN fix_types |-> Percent(fix_types[f], Len(gga_data))],
             signal_quality_percent |-> Percent(good_fixes, Len(gga_data))]
          ELSE EmptyDict
        hdop ==
          IF hdops # <<>> THEN
            [avg_hdop |-> Mean(hdops), min_hdop |-> MinSeq(hdops), max_hdop |-> MaxSeq(hdops)]
          ELSE EmptyDict
        pdop == IF pdops # <<>> THEN [avg_pdop |-> Mean(pdops)] ELSE EmptyDict
        vdop == IF vdops # <<>> THEN [avg_vdop |-> Mean(vdops)] ELSE EmptyDict
    IN  counts @@ position @@ altitude @@ satellites @@ fix @@ hdop @@ pdop @@ vdop

(***************************************************************************)
(* app.py: the requests                                                    *)
(***************************************************************************)
\* The worker threads of the server; each serves one request at a time.
RequestIds == {1, 2}

Routes == {"data", "stats", "positions", "satellites", "upload"}

\* A worker with no request.
Idle == [route |-> "none", pc |-> "idle", local |-> EmptyDict, response |-> EmptyDict]

\* What parse_file returns for the files a client uploads.
UploadFiles ==
  { <<>>,
    <<GGA(6010, -12190, 50, "RTK Fixed", 12, 20)>>,
    <<BareGGA(6000, -12190, "DGPS Fix"), GSV(11)>> }

\* One entry of the positions list (app.py lines 60-67).
Position(d) ==
  [lat |-> d.latitude, lon |-> d.longitude, alt |-> Get(d, "altitude", 0),
   fix_quality |-> Get(d, "fix_quality", "Unknown"),
   num_satellites |-> Get(d, "num_satellites", 0),
   timestamp |-> Get(d, "timestamp", "")]

\* The positions list get_positions builds from a record list.
Positions(records) ==
  LET gga_data == OfType(records, "GGA")
      kept     == SelectSeq(gga_data, LAMBDA d : Truthy(d, "latitude") /\ Truthy(d, "longitude"))
  IN  [i \in 1..Len(kept) |-> Position(kept[i])]

ErrorResponse(code, message) == [status |-> "error", message |-> message, code |-> code]

(***************************************************************************)
(* The calls.  The three operations are pure functions of their arguments, *)
(* so a behaviour makes each call once on the record list chosen in Init:  *)
(* the calculator, then the applicator on what the calculator returned,    *)
(* and the aggregator at any point.                                        *)
(***************************************************************************)
Raised(result) == "exception" \in DOMAIN result

\* app.py before its start-up code has loaded anything (lines 12-18).
AppStart ==
  /\ app_pc = "load"
  /\ sample_data = <<>>
  /\ sample_stats = EmptyDict
  /\ requests = [r \in RequestIds |-> Idle]

Init ==
  /\ data \in SeqsUpTo(Records, MaxLen)
  /\ called = {}
  /\ method = "mean"
  /\ weight_by_quality = TRUE
  /\ correction = EmptyDict
  /\ corrected_data = <<>>
  /\ stats = EmptyDict
  /\ AppStart

CalculatePositionCorrections(m, flag) ==
  /\ "calculate" \notin called
  /\ method' = m
  /\ weight_by_quality' = flag
  /\ correction' = calculate_position_corrections(data, m, flag)
  /\ called' = called \cup {"calculate"}
  /\ UNCHANGED <<data, corrected_data, stats>>
  /\ UNCHANGED appVars

\* The applicator is handed the dict the calculator returned.
ApplyCorrectionsToData ==
  /\ "calculate" \in called
  /\ "apply" \notin called
  /\ ~Raised(correction)
  /\ corrected_data' = apply_corrections_to_data(data, correction)
  /\ called' = called \cup {"apply"}
  /\ UNCHANGED <<data, method, weight_by_quality, correction, stats>>
  /\ UNCHANGED appVars

GetSummaryStatistics ==
  /\ "summarize" \notin called
  /\ stats' = get_summary_statistics(data)
  /\ called' = called \cup {"summarize"}
  /\ UNCHANGED <<data, method, weight_by_quality, correction, corrected_data>>
  /\ UNCHANGED appVars

Next ==
  \/ \E m \in Methods, flag \in BOOLEAN : CalculatePositionCorrections(m, flag)
  \/ ApplyCorrectionsToData
  \/ GetSummaryStatistics

Spec == Init /\ [][Next]_vars

(***************************************************************************)
(* app.py: start-up, then the request handlers.  Each handler runs on its  *)
(* worker thread; a step is one read of the module-level state or one      *)
(* call, so the handlers of different requests interleave.                 *)
(***************************************************************************)
AppInit ==
  /\ data = <<>>
  /\ called = {}
  /\ method = "mean"
  /\ weight_by_quality = TRUE
  /\ correction = EmptyDict
  /\ corrected_data = <<>>
  /\ stats = EmptyDict
  /\ AppStart

\* sample_data = parser.parse_file(SAMPLE_DATA_PATH); parse_file catches its own
\* errors and returns what it decoded, possibly nothing.
LoadSampleData ==
  /\ app_pc = "load"
  /\ \E parsed \in SeqsUpTo(Records, MaxSample) : sample_data' = parsed
  /\ app_pc' = "summarize"
  /\ UNCHANGED <<sample_stats, requests>>
  /\ UNCHANGED coreVars

\* sample_stats = parser.get_summary_statistics(sample_data); the server starts.
ComputeSampleStats ==
  /\ app_pc = "summarize"
  /\ sample_stats' = get_summary_statistics(sample_data)
  /\ app_pc' = "serving"
  /\ UNCHANGED <<sample_data, requests>>
  /\ UNCHANGED coreVars

At(r, route, pc) == requests[r].route = route /\ requests[r].pc = pc

Step(r, pc, local, response) ==
  requests' = [requests EXCEPT ![r] =
                 [route |-> requests[r].route, pc |-> pc,
                  local |-> local, response |-> response]]

Frame == UNCHANGED <<app_pc, sample_data, sample_stats>> /\ UNCHANGED coreVars

\* A request is dispatched to an idle worker.
Receive(r, route) ==
  /\ app_pc = "serving"
  /\ requests[r].pc = "idle"
  /\ requests' = [requests EXCEPT ![r] =
                    [route |-> route, pc |-> "start",
                     local |-> EmptyDict, response |-> EmptyDict]]
  /\ Frame

\* get_data, line 38: 'data': sample_data
GetDataRead(r) ==
  /\ At(r, "data", "start")
  /\ Step(r, "count", [data |-> sample_data], EmptyDict)
  /\ Frame

\* get_data, line 39: 'count': len(sample_data)
GetDataCount(r) ==
  /\ At(r, "data", "count")
  /\ Step(r, "done", requests[r].local,
          [status |-> "success", data |-> requests[r].local.data,
           count |-> Len(sample_data)])
  /\ Frame

GetStats(r) ==
  /\ At(r, "stats", "start")
  /\ Step(r, "done", EmptyDict, [status |-> "success", stats |-> sample_stats])
  /\ Frame

GetPositions(r) ==
  /\ At(r, "positions", "start")
  /\ Step(r, "done", EmptyDict,
          [status |-> "success", positions |-> Positions(sample_data)])
  /\ Frame

\* get_satellites: five satellites placed from the clock alone (their computed
\* latitude and longitude are left out of the modelled response).
GetSatellites(r) ==
  /\ At(r, "satellites", "start")
  /\ Step(r, "done", EmptyDict,
          [status |-> "success",
           satellites |-> [i \in 1..5 |->
              [norad_id |-> <<28361, 28474, 32384, 35752, 40105>>[i], altitude |-> 20200]]])
  /\ Frame

\* upload_file, lines 144-155: the two rejections, or file.save, which may fail.
UploadValidate(r, kind) ==
  /\ At(r, "upload", "start")
  /\ CASE kind = "no_file"    ->
             Step(r, "done", EmptyDict, ErrorResponse(400, "No file provided"))
        [] kind = "no_name"    ->
             Step(r, "done", EmptyDict, ErrorResponse(400, "No file selected"))
        [] kind = "save_fails" ->
             Step(r, "done", EmptyDict, ErrorResponse(500, "exception"))
        [] OTHER               ->
             Step(r, "saved", EmptyDict, EmptyDict)
  /\ Frame

\* Mutant of UploadParse: the parsed upload replaces the module-level sample_data.
UploadParse_WritesGlobal(r, file) ==
  /\ At(r, "upload", "saved")
  /\ Step(r, "parsed", [parsed_data |-> file], EmptyDict)
  /\ sample_data' = file
  /\ UNCHANGED <<app_pc, sample_stats>>
  /\ UNCHANGED coreVars

\* upload_file, line 157: parsed_data = parser.parse_file(temp_path)
UploadParse(r, file) ==
  /\ At(r, "upload", "saved")
  /\ Step(r, "parsed", [parsed_data |-> file], EmptyDict)
  /\ Frame

\* upload_file, lines 158-170: the statistics, os.remove (which may fail), the response.
UploadRespond(r, removed) ==
  /\ At(r, "upload", "parsed")
  /\ LET parsed_data == requests[r].local.parsed_data
     IN  IF removed
         THEN Step(r, "done", requests[r].local,
                   [status |-> "success", data |-> parsed_data,
                    stats |-> get_summary_statistics(parsed_data),
                    count |-> Len(parsed_data)])
         ELSE Step(r, "done", requests[r].local, ErrorResponse(500, "exception"))
  /\ Frame

\* The response is sent and the worker is free again.
Send(r) ==
  /\ requests[r].pc = "done"
  /\ requests' = [requests EXCEPT ![r] = Idle]
  /\ Frame

AppNext ==
  \/ LoadSampleData
  \/ ComputeSampleStats
  \/ \E r \in RequestIds, route \in Routes : Receive(r, route)
  \/ \E r \in RequestIds : GetDataRead(r)
  \/ \E r \in RequestIds : GetDataCount(r)
  \/ \E r \in RequestIds : GetStats(r)
  \/ \E r \in RequestIds : GetPositions(r)
  \/ \E r \in RequestIds : GetSatellites(r)
  \/ \E r \in RequestIds, kind \in {"no_file", "no_name", "save_fails", "file"} :
        UploadValidate(r, kind)
  \/ \E r \in RequestIds, file \in UploadFiles : UploadParse(r, file)
  \/ \E r \in RequestIds, removed \in BOOLEAN : UploadRespond(r, removed)
  \/ \E r \in RequestIds : Send(r)

SpecApp == AppInit /\ [][AppNext]_vars

(***************************************************************************)
(* Vocabulary of the properties, stated from the specification and         *)
(* independently of the operators above                                    *)
(***************************************************************************)
\* A GGA record with non-zero latitude and non-zero longitude.
IsPositionFix(d) ==
  /\ "sentence_type" \in DOMAIN d /\ d.sentence_type = "GGA"
  /\ "latitude" \in DOMAIN d /\ d.latitude # 0
  /\ "longitude" \in DOMAIN d /\ d.longitude # 0

PositionFixes == SelectSeq(data, IsPositionFix)

NumericFields ==
  {"corrected_position", "original_center", "corrections", "accuracy_improvement"}

RecognizedMethods == {"mean", "median", "weighted_average"}

Calculated == "calculate" \in called
Applied == "apply" \in called
Summarized == "summarize" \in called

IsError(result) == "error" \in DOMAIN result
IsSuccess(result) == ~Raised(result) /\ ~IsError(result)

(***************************************************************************)
(* Properties                                                              *)
(***************************************************************************)
\* Every position fix carries a satellite count of zero, so every weight is zero.
AllWeightsZero ==
  \A i \in 1..Len(PositionFixes) :
    "num_satellites" \in DOMAIN PositionFixes[i] /\ PositionFixes[i].num_satellites = 0

\* C1: on >= 2 position fixes calculate_position_corrections never raises, and
\* under weighted_average with weight_by_quality it returns an error result
\* when the weights sum to zero.
C1_ZeroWeightIsAnError ==
  (Calculated /\ Len(PositionFixes) >= 2) =>
     /\ ~Raised(correction)
     /\ (method = "weighted_average" /\ weight_by_quality /\ AllWeightsZero
           => IsError(correction))

\* C2: with fewer than 2 position fixes, whatever the method and the flag, the
\* call returns an error result whose num_points is the number of position
\* fixes, and no corrected_position.
C2_InsufficientData ==
  (Calculated /\ Len(PositionFixes) < 2) =>
     /\ ~Raised(correction)
     /\ IsError(correction)
     /\ "num_points" \in DOMAIN correction
     /\ correction.num_points = Len(PositionFixes)
     /\ "corrected_position" \notin DOMAIN correction

\* C2 witness: one position fix among other records, an unrecognized method.
C2_Witness ==
  /\ Calculated
  /\ Len(PositionFixes) = 1
  /\ Len(data) = 3
  /\ method \notin RecognizedMethods
  /\ IsError(correction)

\* The message names the method: it is the unknown-method message for it.
NamesMethod(result, m) == result.error = "Unknown correction method: " \o m

\* C3 as stated: for every record list an unrecognized method gives an error
\* that names the method, and no numeric field.
C3_UnknownMethodAlwaysNamed ==
  (Calculated /\ method \notin RecognizedMethods) =>
     /\ IsError(correction)
     /\ NamesMethod(correction, method)
     /\ DOMAIN correction \cap NumericFields = {}

\* C3 amended: an unrecognized method gives an error result with no numeric
\* field for every record list, and the error names the method whenever the
\* list holds at least 2 position fixes.
C3_UnknownMethodNamed ==
  (Calculated /\ method \notin RecognizedMethods) =>
     /\ IsError(correction)
     /\ DOMAIN correction \cap NumericFields = {}
     /\ (Len(PositionFixes) >= 2 => NamesMethod(correction, method))

\* C3 witness: an unrecognized method on 2 or more position fixes.
C3_Witness ==
  /\ Calculated
  /\ method \notin RecognizedMethods
  /\ Len(PositionFixes) >= 2
  /\ IsError(correction)

\* C4: every failure result carries an error message and a num_points count.
C4_FailureShape ==
  (Calculated /\ IsError(correction)) => "num_points" \in DOMAIN correction

\* The weight the specification gives a record: a missing satellite count is 4,
\* a missing or zero hdop is 2.0.
ClaimedWeight(d) ==
  LET fix  == IF "fix_quality" \in DOMAIN d THEN d.fix_quality ELSE "Unknown"
      qw   == IF fix \in DOMAIN quality_weights THEN quality_weights[fix] ELSE RInt(1)
      sats == IF "num_satellites" \in DOMAIN d THEN d.num_satellites ELSE 4
      hdop == IF "hdop" \in DOMAIN d /\ d.hdop # 0 THEN d.hdop ELSE 20
  IN  RMul(RMul(qw, Rat(sats, 12)), Rat(10, IF hdop >= 5 THEN hdop ELSE 5))

ClaimedAverage(key) ==
  LET w == [i \in 1..Len(PositionFixes) |-> ClaimedWeight(PositionFixes[i])]
  IN  RDiv(RSumSeq([i \in 1..Len(PositionFixes) |->
                      RMul(RInt(PositionFixes[i][key]), w[i])]),
           RSumSeq(w))

\* C5: under weighted_average with weight_by_quality the corrected position is
\* the average weighted by quality * (satellites / 12) / max(hdop, 0.5), with a
\* missing satellite count taken as 4 and a missing or zero hdop taken as 2.0.
C5_ZeroHdopIsDefaulted ==
  (Calculated /\ method = "weighted_average" /\ weight_by_quality
     /\ IsSuccess(correction)) =>
     /\ correction.corrected_position.latitude = ClaimedAverage("latitude")
     /\ correction.corrected_position.longitude = ClaimedAverage("longitude")

\* C6: on >= 2 position fixes, weighted_average without weight_by_quality
\* returns the corrected position that mean returns on the same records
\* (equal as exact numbers; the two float computations round differently, so
\* the code's results agree to within a few units in the last place).
C6_UnweightedIsMean ==
  (Calculated /\ method = "weighted_average" /\ ~weight_by_quality
     /\ Len(PositionFixes) >= 2) =>
     /\ IsSuccess(correction)
     /\ correction.corrected_position
          = calculate_position_corrections(data, "mean", weight_by_quality).corrected_position

\* C6 witness: such a call on fixes whose quality weights differ and include a
\* record with no satellites.
C6_Witness ==
  /\ Calculated /\ method = "weighted_average" /\ ~weight_by_quality
  /\ IsSuccess(correction)
  /\ \E i, j \in 1..Len(PositionFixes) :
        /\ ClaimedWeight(PositionFixes[i]) = RInt(0)
        /\ ClaimedWeight(PositionFixes[j]) # RInt(0)
        /\ PositionFixes[i].latitude # PositionFixes[j].latitude

\* C7: in every successful result
\* 0 <= min_distance_correction_m <= mean_distance_correction_m <= max_distance_correction_m.
C7_DistanceOrder ==
  (Calculated /\ IsSuccess(correction)) =>
     /\ 0 <= correction.corrections.min_distance_correction_m
     /\ RLe(RInt(correction.corrections.min_distance_correction_m),
            correction.corrections.mean_distance_correction_m)
     /\ RLe(correction.corrections.mean_distance_correction_m,
            RInt(correction.corrections.max_distance_correction_m))

\* C7 witness: a successful result whose three distances are all different.
C7_Witness ==
  /\ Calculated /\ IsSuccess(correction)
  /\ 0 < correction.corrections.min_distance_correction_m
  /\ ~RLe(correction.corrections.mean_distance_correction_m,
           RInt(correction.corrections.min_distance_correction_m))
  /\ ~RLe(RInt(correction.corrections.max_distance_correction_m),
           correction.corrections.mean_distance_correction_m)

AddedKeys ==
  {"latitude_original", "longitude_original", "altitude_original",
   "latitude_corrected", "longitude_corrected", "altitude_corrected"}

\* out is d plus its own original values and the one corrected position.
IsAugmented(out, d, pos) ==
  /\ DOMAIN out = DOMAIN d \cup AddedKeys
  /\ \A k \in DOMAIN d \ AddedKeys : out[k] = d[k]
  /\ out.latitude_original = d.latitude
  /\ out.longitude_original = d.longitude
  /\ out.altitude_original = (IF "altitude" \in DOMAIN d THEN d.altitude ELSE 0)
  /\ out.latitude_corrected = pos.latitude
  /\ out.longitude_corrected = pos.longitude
  /\ out.altitude_corrected = pos.altitude

\* C8: with a successful correction the output has the input's length and
\* order; record i is the augmented input record exactly when input record i
\* is a position fix, and equals input record i otherwise.
C8_ApplyAugmentsFixesOnly ==
  (Applied /\ IsSuccess(correction)) =>
     /\ Len(corrected_data) = Len(data)
     /\ \A i \in 1..Len(data) :
          IF IsPositionFix(data[i])
          THEN IsAugmented(corrected_data[i], data[i], correction.corrected_position)
          ELSE corrected_data[i] = data[i]

\* C8 witness: a successful correction applied to a list that holds position
\* fixes and another record.
C8_Witness ==
  /\ Applied /\ IsSuccess(correction)
  /\ \E i \in 1..Len(data) : ~IsPositionFix(data[i])
  /\ \E i \in 1..Len(corrected_data) : "latitude_corrected" \in DOMAIN corrected_data[i]

\* C9: with an error result the applicator returns the input's content.
C9_ErrorPassesThrough ==
  (Applied /\ IsError(correction)) => corrected_data = data

\* C9 witness: an error result applied to a list that holds position fixes.
C9_Witness ==
  /\ Applied /\ IsError(correction)
  /\ PositionFixes # <<>>
  /\ corrected_data # <<>>

SentenceTypes == {"GGA", "RMC", "GSA", "GSV"}

CountKey(type) ==
  CASE type = "GGA" -> "gga_count"
    [] type = "RMC" -> "rmc_count"
    [] type = "GSA" -> "gsa_count"
    [] type = "GSV" -> "gsv_count"

CountOf(type) == Cardinality({i \in 1..Len(data) : data[i].sentence_type = type})

\* C10: for a non-empty list the statistics report the total and a count for
\* each sentence type that occurs, GSV included.
C10_CountPerTypePresent ==
  (Summarized /\ data # <<>>) =>
     /\ stats.total_sentences = Len(data)
     /\ \A t \in SentenceTypes :
          CountOf(t) > 0 => /\ CountKey(t) \in DOMAIN stats
                            /\ stats[CountKey(t)] = CountOf(t)

RECURSIVE SumValues(_, _)
SumValues(f, keys) ==
  IF keys = {} THEN 0
  ELSE LET k == CHOOSE x \in keys : TRUE
       IN  f[k] + SumValues(f, keys \ {k})

GGARecords == SelectSeq(data, LAMBDA d : d.sentence_type = "GGA")

\* The fix_quality labels of the GGA records, "Unknown" where the key is absent.
FixLabels ==
  {IF "fix_quality" \in DOMAIN GGARecords[i] THEN GGARecords[i].fix_quality ELSE "Unknown" :
     i \in 1..Len(GGARecords)}

LabelCount(f) ==
  Cardinality({i \in 1..Len(GGARecords) :
     (IF "fix_quality" \in DOMAIN GGARecords[i] THEN GGARecords[i].fix_quality
      ELSE "Unknown") = f})

\* v (tenths of a percent) is count / total * 100 rounded to one decimal.
IsRoundedPercent(v, count, total) == 2 * Abs(v * total - count * 1000) <= total

\* C11: with at least one GGA record, signal_quality_percent lies in [0, 100],
\* fix_percentages has one value per distinct fix_quality label, each the
\* label's share of the GGA records rounded to one decimal, and the values sum
\* to 100 within the rounding of the values (0.05 per label).
C11_PercentagesSumTo100 ==
  (Summarized /\ Len(GGARecords) >= 1) =>
     /\ "signal_quality_percent" \in DOMAIN stats
     /\ 0 <= stats.signal_quality_percent /\ stats.signal_quality_percent <= 1000
     /\ "fix_percentages" \in DOMAIN stats
     /\ DOMAIN stats.fix_percentages = FixLabels
     /\ \A f \in FixLabels :
          IsRoundedPercent(stats.fix_percentages[f], LabelCount(f), Len(GGARecords))
     /\ 2 * Abs(SumValues(stats.fix_percentages, FixLabels) - 1000)
          <= Cardinality(FixLabels)

\* C11 witness: three GGA records with three labels, whose thirds round to
\* 33.3 each (sum 99.9), one of them a good fix.
C11_Witness ==
  /\ Summarized
  /\ Len(GGARecords) = 3
  /\ Cardinality(FixLabels) = 3
  /\ SumValues(stats.fix_percentages, FixLabels) = 999
  /\ stats.signal_quality_percent = 333

Done(r, route) == requests[r].route = route /\ requests[r].pc = "done"

SampleFixes == SelectSeq(sample_data, IsPositionFix)

\* The finished data, stats and positions responses show the module-level sample.
ResponsesShowSample ==
  \A r \in RequestIds :
    /\ Done(r, "data") =>
          /\ requests[r].response.data = sample_data
          /\ requests[r].response.count = Len(sample_data)
    /\ Done(r, "stats") => requests[r].response.stats = sample_stats
    /\ Done(r, "positions") =>
          /\ Len(requests[r].response.positions) = Len(SampleFixes)
          /\ \A i \in 1..Len(SampleFixes) :
                /\ requests[r].response.positions[i].lat = SampleFixes[i].latitude
                /\ requests[r].response.positions[i].lon = SampleFixes[i].longitude

\* C12: once start-up is over no step changes sample_data or sample_stats,
\* whatever requests (failed uploads included) are served and however they
\* interleave, and every data, stats and positions response is computed from
\* that value.
C12_SampleWrittenOnlyAtStartup ==
  /\ [][app_pc = "serving" =>
          (sample_data' = sample_data /\ sample_stats' = sample_stats)]_vars
  /\ [](app_pc # "serving" => \A r \in RequestIds : requests[r] = Idle)
  /\ []ResponsesShowSample

\* C12 witness: one worker has answered an upload of records other than the
\* sample while the other has answered a data request on a non-empty sample.
C12_Witness ==
  /\ app_pc = "serving"
  /\ sample_data # <<>>
  /\ \E r, u \in RequestIds :
        /\ Done(r, "data")
        /\ Done(u, "upload")
        /\ requests[u].response.status = "success"
        /\ requests[u].response.data # <<>>
        /\ requests[u].response.data # sample_data

\* The step in which apply_corrections_to_data returns.
ApplyReturns == "apply" \notin called /\ "apply" \in called'

\* Every key of an input record other than the six added ones keeps its value.
KeysKept ==
  /\ Len(corrected_data) = Len(data)
  /\ \A i \in 1..Len(data) : \A k \in DOMAIN data[i] \ AddedKeys :
        k \in DOMAIN corrected_data[i] /\ corrected_data[i][k] = data[i][k]

\* C13: a successful apply_corrections_to_data leaves the input list and its
\* records as they were and keeps every key other than the six added ones, so
\* the statistics and the corrections (every method, either flag) computed on
\* its output are those computed on the input, and applying the correction
\* to the output again gives the output.
C13_ApplyKeepsRecords ==
  /\ [][ApplyReturns => data' = data]_vars
  /\ []((Applied /\ IsSuccess(correction)) =>
          /\ KeysKept
          /\ get_summary_statistics(corrected_data) = get_summary_statistics(data)
          /\ \A m \in Methods, flag \in BOOLEAN :
                calculate_position_corrections(corrected_data, m, flag)
                  = calculate_position_corrections(data, m, flag)
          /\ apply_corrections_to_data(corrected_data, correction) = corrected_data)

\* C13 witness: a correction that moves the fixes, applied to a list holding
\* two different fixes and another record.
C13_Witness ==
  /\ Applied /\ IsSuccess(correction)
  /\ Len(PositionFixes) = 2 /\ Len(data) = 3
  /\ PositionFixes[1].latitude # PositionFixes[2].latitude
  /\ corrected_data # data

\* The output records that carry the corrected position.
CorrectedRecords ==
  {i \in 1..Len(corrected_data) :
     {"latitude_corrected", "longitude_corrected", "altitude_corrected"}
       \subseteq DOMAIN corrected_data[i]}

\* C14: after a successful correction is applied, the number of output records
\* that carry the corrected position is the result's
\* accuracy_improvement.num_points, and it is at least 2.
C14_SameEligibilityRule ==
  (Applied /\ IsSuccess(correction)) =>
     /\ Cardinality(CorrectedRecords) = correction.accuracy_improvement.num_points
     /\ Cardinality(CorrectedRecords) >= 2

\* C14 witness: two fixes and a GGA record without a longitude; only the two
\* fixes are corrected.
C14_Witness ==
  /\ Applied /\ IsSuccess(correction)
  /\ Len(data) = 3
  /\ \E i \in 1..Len(data) :
        data[i].sentence_type = "GGA" /\ ~IsPositionFix(data[i])
  /\ Cardinality(CorrectedRecords) = 2

====
